---------------------------- MODULE Spec2Model ----------------------------
(***************************************************************************)
(* A model of dac2bids: the BIDS name composer (Bidifyer and its           *)
(* subclasses), the label formatter and the orchestrator's constructor     *)
(* (Dac2Bids.__init__) of src/refactored.py.                               *)
(*                                                                         *)
(* Python strings are sequences of one-character strings, so that          *)
(* formatting, padding, joining and slicing are computed and not assumed.  *)
(* A Python value that may be an int or a str is a record                  *)
(* [isInt, n, s]; the empty placeholder "" is StrVal(<<>>).                *)
(***************************************************************************)
EXTENDS Integers, Sequences, FiniteSets, TLC

VARIABLES
    pc,          \* composer: "idle", "start", "built" (constructed) or "raised"
    call,        \* the constructor call: [cls, args, kwargs]
    bids,        \* the constructed composer object, or NoObject
    raised,      \* the exception the last operation raised, or "none"
    result,      \* the last accessor read: [accessor, value], or NoResult
    fpc,         \* formatter check: "idle", "input" or "done"
    fin,         \* formatter check: [precision, x]
    fout,        \* formatter check: outcome of formatter(precision)(x)
    dpc,         \* orchestrator: "idle", "start", "built" or "raised"
    fs,          \* orchestrator: the file system and working directory
    dcall,       \* orchestrator: the arguments of Dac2Bids(...)
    dac,         \* orchestrator: what Dac2Bids.__init__ got to assign to self
    draised,     \* orchestrator: the exception the constructor raised, or "none"
    ypc,         \* manifest: "idle", "start", "parse", "manifest", "done" or "raised"
    tree,        \* manifest: the folders of the input folder, in listing order
    skipfmap,    \* manifest: the --skipfmap flag
    at,          \* manifest: the item the running loop is at
    outfolder,   \* manifest: parse_protocols' local outfolder
    experiment,  \* manifest: parse_protocols' local experiment
    dirs,        \* manifest: the dictionary parse_protocols fills, in key order
    Files,       \* manifest: pydict['Files']
    yraised      \* manifest: the exception the run raised, or "none"

vars == <<pc, call, bids, raised, result, fpc, fin, fout,
          dpc, fs, dcall, dac, draised,
          ypc, tree, skipfmap, at, outfolder, experiment, dirs, Files, yraised>>

---------------------------------------------------------------------------
(* Bounds of the model. *)

\* Keys a caller sets in one bids_config dictionary.
MaxKeys == 2
\* Keys set in the bids_config handed to a subclass constructor.
MaxSubclassKeys == 1
\* format_precision ranges over 1..MaxPrecision.
MaxPrecision == 6
\* The formatter is applied to the integers -MaxFormatInt..MaxFormatInt.
MaxFormatInt == 12
\* Names an entry of the input root, or of the working directory, can have.
MaxDirs == 2
\* Folders in the input tree of one manifest run.
MaxFolders == 2

---------------------------------------------------------------------------
(* Python values. *)

IntVal(n) == [isInt |-> TRUE, n |-> n, s |-> <<>>]
StrVal(s) == [isInt |-> FALSE, n |-> 0, s |-> s]
EMPTY == StrVal(<<>>)

Ok(v) == [raised |-> "none", value |-> v]
Raise(e) == [raised |-> e, value |-> <<>>]

DigitChars == <<"0", "1", "2", "3", "4", "5", "6", "7", "8", "9">>
DigitSet == {DigitChars[i] : i \in 1..10}
LetterSet == {"a", "b", "c", "d", "e", "f", "g", "h", "i", "j", "k", "l", "m",
              "n", "o", "p", "q", "r", "s", "t", "u", "v", "w", "x", "y", "z"}

RECURSIVE NatToStr(_)
\* str(n) for n >= 0: the base-10 digits, most significant first.
NatToStr(n) ==
    IF n < 10 THEN <<DigitChars[n + 1]>>
    ELSE Append(NatToStr(n \div 10), DigitChars[(n % 10) + 1])

\* str(n) for an int.
IntToStr(n) == IF n < 0 THEN <<"-">> \o NatToStr(-n) ELSE NatToStr(n)

\* str(v) of a value.
Str(v) == IF v.isInt THEN IntToStr(v.n) ELSE v.s

RECURSIVE Zeros(_)
Zeros(k) == IF k <= 0 THEN <<>> ELSE <<"0">> \o Zeros(k - 1)

\* str.isalnum(): non-empty and every character a letter or a digit.
IsAlnum(s) == Len(s) > 0 /\ \A i \in 1..Len(s) : s[i] \in (LetterSet \cup DigitSet)

---------------------------------------------------------------------------
(* formatter(precision): "{:0<precision>d}".format(x). *)

\* The format spec 0<precision>d on an int: sign-aware zero padding to a
\* total width of precision. On a str the 'd' code raises ValueError.
Formatter(precision, x) ==
    IF ~x.isInt THEN Raise("ValueError")
    ELSE LET digits == NatToStr(IF x.n < 0 THEN -x.n ELSE x.n)
             sign == IF x.n < 0 THEN <<"-">> ELSE <<>>
         IN Ok(sign \o Zeros(precision - Len(sign) - Len(digits)) \o digits)

---------------------------------------------------------------------------
(* Bidifyer: class attributes. *)

bids_abbreviations ==
    [subject |-> <<"s", "u", "b">>,
     session |-> <<"s", "e", "s">>,
     task |-> <<"t", "a", "s", "k">>,
     acquisition |-> <<"a", "c", "q">>,
     pe_direction |-> <<"d", "i", "r">>,
     run |-> <<"r", "u", "n">>]

bids_tag_separator == <<"_">>

\* The keys Bidifyer.__init__ reads from bids_config.
ReadKeys == {"subject_number", "session_number", "subject_label",
             "session_label", "task_label", "acquisition_label",
             "acquisition_number", "pe_direction_label", "run_index"}

default_configuration ==
    [k \in ReadKeys |-> IF k = "subject_number" THEN IntVal(1) ELSE EMPTY]

\* dict.get(key, default)
Get(d, key, default) == IF key \in DOMAIN d THEN d[key] ELSE default

\* "{0}-{1}{2}".format(abbreviation, label, number)
FormatTag(abbreviation, label, number) ==
    abbreviation \o <<"-">> \o label \o number

\* "x is not ''": CPython keeps one empty str object, so the identity test
\* agrees with the comparison x != "".
IsNotEmpty(x) == x # EMPTY

---------------------------------------------------------------------------
(* Bidifyer: the properties. self is [config, format_precision, tags].     *)
(* Each returns Ok(string) or Raise(exception).                            *)

subject_tag(self) ==
    LET label == self.config["subject_label"]
        number == Formatter(self.format_precision, self.config["subject_number"])
    IN IF number.raised # "none" THEN number
       ELSE Ok(FormatTag(bids_abbreviations.subject, Str(label), number.value))

session_tag(self) ==
    IF self.config["session_label"] = EMPTY /\ self.config["session_number"] = EMPTY
    THEN Ok(<<>>)
    ELSE LET label == self.config["session_label"]
             number == IF IsNotEmpty(self.config["session_number"])
                       THEN Formatter(self.format_precision,
                                      self.config["session_number"])
                       ELSE Ok(<<>>)
         IN IF number.raised # "none" THEN number
            ELSE Ok(FormatTag(bids_abbreviations.session, Str(label), number.value))

task_tag(self) ==
    IF self.config["task_label"] = EMPTY THEN Ok(<<>>)
    ELSE Ok(bids_abbreviations.task \o <<"-">> \o Str(self.config["task_label"]))

\* acquisition_tag without the early return for an empty label and number.
acquisition_tag_always_formats(self) ==
    LET label == self.config["acquisition_label"]
        number == IF IsNotEmpty(self.config["acquisition_number"])
                  THEN Formatter(2, self.config["acquisition_number"])
                  ELSE Ok(<<>>)
    IN IF number.raised # "none" THEN number
       ELSE Ok(FormatTag(bids_abbreviations.acquisition, Str(label), number.value))

acquisition_tag(self) ==
    IF self.config["acquisition_label"] = EMPTY
       /\ self.config["acquisition_number"] = EMPTY
    THEN Ok(<<>>)
    ELSE LET label == self.config["acquisition_label"]
             number == IF IsNotEmpty(self.config["acquisition_number"])
                       THEN Formatter(2, self.config["acquisition_number"])
                       ELSE Ok(<<>>)
         IN IF number.raised # "none" THEN number
            ELSE Ok(FormatTag(bids_abbreviations.acquisition, Str(label),
                              number.value))

pe_direction_tag(self) ==
    IF self.config["pe_direction_label"] = EMPTY THEN Ok(<<>>)
    ELSE Ok(bids_abbreviations.pe_direction \o <<"-">>
            \o Str(self.config["pe_direction_label"]))

\* run_tag formatting with the composer's format_precision instead of 2.
run_tag_global_precision(self) ==
    IF self.config["run_index"] = EMPTY THEN Ok(<<>>)
    ELSE LET number == Formatter(self.format_precision, self.config["run_index"])
         IN IF number.raised # "none" THEN number
            ELSE Ok(bids_abbreviations.run \o <<"-">> \o number.value)

run_tag(self) ==
    IF self.config["run_index"] = EMPTY THEN Ok(<<>>)
    ELSE LET number == Formatter(2, self.config["run_index"])
         IN IF number.raised # "none" THEN number
            ELSE Ok(bids_abbreviations.run \o <<"-">> \o number.value)

RECURSIVE Reduce(_, _)
\* functools.reduce(lambda x, y: x + y, parts) from position i on.
Reduce(parts, i) ==
    IF i > Len(parts) THEN <<>> ELSE parts[i] \o Reduce(parts, i + 1)

\* tag appending the separator to every stored tag, empty or not.
tag_separates_empty_tags(self) ==
    LET sep == bids_tag_separator
        parts == [i \in 1..Len(self.tags) |-> self.tags[i] \o sep]
        joined == Reduce(parts, 1)
    IN Ok(SubSeq(joined, 1, Len(joined) - 1))

\* Bidifyer.tag: every non-empty stored tag followed by the separator,
\* concatenated, and the last character cut off ([:-1]).
tag(self) ==
    LET sep == bids_tag_separator
        parts == [i \in 1..Len(self.tags) |->
                     IF self.tags[i] # <<>> THEN self.tags[i] \o sep ELSE <<>>]
        joined == Reduce(parts, 1)
    IN Ok(SubSeq(joined, 1, Len(joined) - 1))

\* Bidifyer.check_label
check_label(label) ==
    IF IsAlnum(Str(label)) THEN Ok(<<>>) ELSE Raise("BidsMalformedLabelError")

---------------------------------------------------------------------------
(* Constructor calls. An argument is [type, items, n]: a dict, an int, or  *)
(* the object under construction (what a subclass passes as "self").       *)

ArgDict(d) == [type |-> "dict", items |-> d, n |-> 0]
ArgInt(n) == [type |-> "int", items |-> <<>>, n |-> n]
ArgSelf == [type |-> "self", items |-> <<>>, n |-> 0]
NoArg == [type |-> "absent", items |-> <<>>, n |-> 0]

InitParams == <<"bids_config", "format_precision">>

\* Python's binding of a call's arguments to the parameters
\* (bids_config=default_configuration, format_precision=2) of
\* Bidifyer.__init__; a TypeError when they do not fit.
Bind(args, kwargs) ==
    IF \/ Len(args) > Len(InitParams)
       \/ \E i \in 1..Len(InitParams) : i <= Len(args) /\ InitParams[i] \in DOMAIN kwargs
       \/ \E k \in DOMAIN kwargs : \A i \in 1..Len(InitParams) : InitParams[i] # k
    THEN [raised |-> "TypeError", bids_config |-> NoArg, format_precision |-> NoArg]
    ELSE [raised |-> "none",
          bids_config |->
              IF Len(args) >= 1 THEN args[1]
              ELSE Get(kwargs, "bids_config", ArgDict(default_configuration)),
          format_precision |->
              IF Len(args) >= 2 THEN args[2]
              ELSE Get(kwargs, "format_precision", ArgInt(2))]

NoObject ==
    [exists |-> FALSE, cls |-> "none", config |-> default_configuration,
     format_precision |-> 0, tags |-> <<>>]

\* for label in self.config.values(): if label != "": self.check_label(label)
CheckLabels(config) ==
    IF \E k \in DOMAIN config :
          config[k] # EMPTY /\ check_label(config[k]).raised # "none"
    THEN Raise("BidsMalformedLabelError")
    ELSE Ok(<<>>)

\* Bidifyer.__init__(self, bids_config, format_precision): [raised, obj].
\* The six tags are composed (and stored) before the labels are checked.
BidifyerInit(cls, bids_config, format_precision) ==
    IF bids_config.type # "dict"
    THEN [raised |-> "AttributeError", obj |-> NoObject]  \* no attribute 'get'
    ELSE
    LET config == [k \in ReadKeys |->
                      Get(bids_config.items, k,
                          IF k = "subject_number" THEN IntVal(1) ELSE EMPTY)]
        self == [config |-> config, format_precision |-> format_precision.n]
        tags == <<subject_tag(self), session_tag(self), task_tag(self),
                  acquisition_tag(self), pe_direction_tag(self), run_tag(self)>>
        failed == {i \in 1..Len(tags) : tags[i].raised # "none"}
    IN IF failed # {}
       THEN [raised |-> tags[CHOOSE i \in failed : \A j \in failed : i <= j].raised,
             obj |-> NoObject]
       ELSE IF CheckLabels(config).raised # "none"
       THEN [raised |-> CheckLabels(config).raised, obj |-> NoObject]
       ELSE [raised |-> "none",
             obj |-> [exists |-> TRUE, cls |-> cls, config |-> config,
                      format_precision |-> format_precision.n,
                      tags |-> [i \in 1..Len(tags) |-> tags[i].value]]]

\* A subclass __init__: super().__init__(self, *args, **kwargs), which hands
\* the object itself to Bidifyer.__init__ as its first argument after self;
\* FunctionalBidifyer then requires a task label.
SubclassInit(cls, args, kwargs) ==
    LET bound == Bind(<<ArgSelf>> \o args, kwargs)
        base == BidifyerInit(cls, bound.bids_config, bound.format_precision)
    IN IF bound.raised # "none" THEN [raised |-> bound.raised, obj |-> NoObject]
       ELSE IF base.raised # "none" THEN base
       ELSE IF cls = "FunctionalBidifyer" /\ base.obj.config["task_label"] = EMPTY
       THEN [raised |-> "BidsInconsistentNamingError", obj |-> NoObject]
       ELSE base

---------------------------------------------------------------------------
(* The inputs: bids_config dictionaries with a bounded number of keys.     *)

Labels == {<<>>, <<"a", "b">>, <<"a", "/">>, <<"_">>}
IndexValues == {0, 3, 123}

LabelKeys == {"subject_label", "session_label", "task_label",
              "acquisition_label", "pe_direction_label"}
NumberKeys == {"subject_number", "session_number", "acquisition_number",
               "run_index"}
\* Keys the tests of src/tests.py set and Bidifyer.__init__ never reads.
IndexKeys == {"subject_index", "session_index", "acquisition_index"}
AllKeys == LabelKeys \cup NumberKeys \cup IndexKeys

KeyValues(k) ==
    IF k \in LabelKeys THEN {StrVal(l) : l \in Labels}
    ELSE IF k \in NumberKeys THEN {IntVal(n) : n \in IndexValues} \cup {EMPTY}
    ELSE {IntVal(n) : n \in IndexValues}

RECURSIVE ConfigsOver(_)
\* Every dictionary whose keys are exactly K.
ConfigsOver(K) ==
    IF K = {} THEN {[k \in {} |-> EMPTY]}
    ELSE LET key == CHOOSE k \in K : TRUE
         IN {[k \in K |-> IF k = key THEN v ELSE d[k]] :
                d \in ConfigsOver(K \ {key}), v \in KeyValues(key)}

Configs(maxKeys) ==
    UNION {ConfigsOver(K) : K \in {S \in SUBSET AllKeys : Cardinality(S) <= maxKeys}}

\* The configuration of BidifyerTests.test_all_order, with the index keys
\* the test uses.
test_configuration ==
    [subject_index |-> IntVal(1),
     subject_label |-> StrVal(<<"s", "u", "b", "l", "a", "b", "e", "l">>),
     session_index |-> IntVal(3),
     session_label |-> StrVal(<<"s", "e", "s", "l", "a", "b", "e", "l">>),
     task_label |-> StrVal(<<"t", "a", "s", "k", "l", "a", "b", "e", "l">>),
     acquisition_index |-> IntVal(5),
     acquisition_label |-> StrVal(<<"a", "c", "q", "l", "a", "b", "e", "l">>),
     pe_direction_label |-> StrVal(<<"d", "i", "r", "l", "a", "b", "e", "l">>),
     run_index |-> IntVal(8)]

\* The same configuration under the keys Bidifyer.__init__ reads.
full_configuration ==
    [subject_number |-> test_configuration["subject_index"],
     subject_label |-> test_configuration["subject_label"],
     session_number |-> test_configuration["session_index"],
     session_label |-> test_configuration["session_label"],
     task_label |-> test_configuration["task_label"],
     acquisition_number |-> test_configuration["acquisition_index"],
     acquisition_label |-> test_configuration["acquisition_label"],
     pe_direction_label |-> test_configuration["pe_direction_label"],
     run_index |-> test_configuration["run_index"]]

\* The bids_config dictionaries a Bidifyer is constructed with.
BidsConfigs == Configs(MaxKeys) \cup {test_configuration, full_configuration}

Precisions == {ArgInt(p) : p \in 1..MaxPrecision}

\* The keyword arguments of a call: those of the two that are given.
Kwargs(c, p) ==
    [k \in {x \in {"bids_config", "format_precision"} :
               (x = "bids_config" /\ c.type # "absent")
               \/ (x = "format_precision" /\ p.type # "absent")} |->
        IF k = "bids_config" THEN c ELSE p]

\* The positional arguments of a call.
Posargs(c, p) ==
    IF c.type = "absent" THEN <<>>
    ELSE IF p.type = "absent" THEN <<c>> ELSE <<c, p>>

NoResult == [accessor |-> "none", value |-> <<>>]

---------------------------------------------------------------------------
(* Actions of the composer. *)

Finish(outcome) ==
    /\ bids' = outcome.obj
    /\ raised' = outcome.raised
    /\ pc' = IF outcome.raised = "none" THEN "built" ELSE "raised"
    /\ result' = NoResult
    /\ UNCHANGED <<fpc, fin, fout, dpc, fs, dcall, dac, draised>>
    /\ UNCHANGED <<ypc, tree, skipfmap, at, outfolder, experiment, dirs, Files, yraised>>

\* Bidifyer(bids_config=c, format_precision=p), either argument optional.
NewBidifyer ==
    /\ pc = "start"
    /\ \E c \in {NoArg} \cup {ArgDict(d) : d \in BidsConfigs},
          p \in {NoArg} \cup Precisions :
          LET bound == Bind(<<>>, Kwargs(c, p))
          IN /\ call' = [cls |-> "Bidifyer", args |-> <<>>, kwargs |-> Kwargs(c, p)]
             /\ Finish(BidifyerInit("Bidifyer", bound.bids_config,
                                    bound.format_precision))

\* FunctionalBidifyer(...), arguments positional or by keyword.
NewFunctionalBidifyer ==
    /\ pc = "start"
    /\ \E c \in {NoArg} \cup {ArgDict(d) : d \in Configs(MaxSubclassKeys)},
          p \in {NoArg} \cup Precisions, positional \in BOOLEAN :
          LET args == IF positional THEN Posargs(c, p) ELSE <<>>
              kwargs == IF positional THEN Kwargs(NoArg, NoArg) ELSE Kwargs(c, p)
          IN /\ positional => (c.type = "absent" => p.type = "absent")
             /\ call' = [cls |-> "FunctionalBidifyer", args |-> args,
                         kwargs |-> kwargs]
             /\ Finish(SubclassInit("FunctionalBidifyer", args, kwargs))

OtherSubclasses == {"AnatomicalBidifyer", "PhysiologicalBidifyer",
                    "DiffusionBidifyer", "FieldMapBidifyer"}

\* AnatomicalBidifyer(...), PhysiologicalBidifyer(...), DiffusionBidifyer(...),
\* FieldMapBidifyer(...): the same forwarding constructor.
NewOtherBidifyer ==
    /\ pc = "start"
    /\ \E cls \in OtherSubclasses,
          c \in {NoArg} \cup {ArgDict(d) : d \in Configs(MaxSubclassKeys)},
          positional \in BOOLEAN :
          LET args == IF positional THEN Posargs(c, NoArg) ELSE <<>>
              kwargs == IF positional THEN Kwargs(NoArg, NoArg) ELSE Kwargs(c, NoArg)
          IN /\ call' = [cls |-> cls, args |-> args, kwargs |-> kwargs]
             /\ Finish(SubclassInit(cls, args, kwargs))

\* Reading a property of the constructed object.
Read(name, outcome) ==
    /\ pc = "built"
    /\ result' = [accessor |-> name, value |-> outcome.value]
    /\ raised' = outcome.raised
    /\ UNCHANGED <<pc, call, bids, fpc, fin, fout, dpc, fs, dcall, dac, draised>>
    /\ UNCHANGED <<ypc, tree, skipfmap, at, outfolder, experiment, dirs, Files, yraised>>

ReadSubjectTag == Read("subject_tag", subject_tag(bids))
ReadSessionTag == Read("session_tag", session_tag(bids))
ReadTaskTag == Read("task_tag", task_tag(bids))
ReadAcquisitionTag == Read("acquisition_tag", acquisition_tag(bids))
ReadPeDirectionTag == Read("pe_direction_tag", pe_direction_tag(bids))
ReadRunTag == Read("run_tag", run_tag(bids))
ReadTag == Read("tag", tag(bids))

---------------------------------------------------------------------------
(* The formatter on its own: formatter(precision)(x). *)

FormatterInputs ==
    {IntVal(n) : n \in (-MaxFormatInt..MaxFormatInt) \cup IndexValues} \cup {EMPTY}

ApplyFormatter ==
    /\ fpc = "input"
    /\ fout' = Formatter(fin.precision, fin.x)
    /\ fpc' = "done"
    /\ UNCHANGED <<pc, call, bids, raised, result, fin, dpc, fs, dcall, dac, draised>>
    /\ UNCHANGED <<ypc, tree, skipfmap, at, outfolder, experiment, dirs, Files, yraised>>

---------------------------------------------------------------------------
(* The file system Dac2Bids.__init__ looks at. The input root is missing,  *)
(* a file or a directory; its entries are named 1..MaxDirs and each is a   *)
(* file or a directory with a set of subdirectories. A relative path is    *)
(* resolved against the working directory, which is the input root itself  *)
(* (cwdIsInput) or another directory with entries of its own.              *)

SubdirNames == {<<".", "g", "i", "t">>, <<"n", "e", "s", "t">>}
EntryNames == 1..MaxDirs

Entries ==
    {[isdir |-> FALSE, subdirs |-> {}]}
    \cup {[isdir |-> TRUE, subdirs |-> S] : S \in SUBSET SubdirNames}

Listings == UNION {[N -> Entries] : N \in SUBSET EntryNames}

FileSystems ==
    {[rootKind |-> "dir", root |-> r, cwdIsInput |-> TRUE, cwd |-> r] :
        r \in Listings}
    \cup {[rootKind |-> k, root |-> IF k = "dir" THEN r ELSE <<>>,
           cwdIsInput |-> FALSE, cwd |-> c] :
             k \in {"missing", "file", "dir"}, r \in Listings, c \in Listings}

\* os.path.exists(input_dir) in place of os.path.isdir(input_dir).
isdir_as_exists(f) == f.rootKind # "missing"

\* os.path.isdir(input_dir)
isdir(f) == f.rootKind = "dir"

\* lsdirs(folder) on the input root: the entries x of os.listdir(folder)
\* with os.path.isdir(os.path.join(folder, x)).
lsdirs(f) == {x \in DOMAIN f.root : f.root[x].isdir}

\* has_subdirectory(folder), as a truth value. folder is the bare entry
\* name, so os.walk(folder) walks the entry of that name in the working
\* directory: nothing is yielded (None is returned) when that is missing or
\* a file; otherwise "subdirs and not all(d[0] == '.' for d in subdirs)".
has_subdirectory(f, folder) ==
    IF folder \notin DOMAIN f.cwd \/ ~f.cwd[folder].isdir THEN FALSE
    ELSE LET subdirs == f.cwd[folder].subdirs
         IN subdirs # {} /\ ~(\A d \in subdirs : d[1] = ".")

NoDac == [input_dir |-> FALSE, directory_list |-> {}, listed |-> FALSE,
          config |-> FALSE]

\* Dac2Bids.__init__: [raised, self]. self records which attributes were
\* assigned: input_dir, directory_list (listed) and config. The class
\* defines no attribute config and __init__ never creates one, so the
\* assignment self.config["subject_number"] = ... raises AttributeError.
Dac2BidsInit(f, subject_number, session_number) ==
    IF ~isdir(f)
    THEN [raised |-> "NotADirectoryError", self |-> NoDac]
    ELSE LET directory_list == lsdirs(f)
             self == [input_dir |-> TRUE, directory_list |-> directory_list,
                      listed |-> TRUE, config |-> FALSE]
         IN IF \E dicomdir \in directory_list : has_subdirectory(f, dicomdir)
            THEN [raised |-> "UnproperDicomSortingError", self |-> self]
            ELSE IF ~self.config
            THEN [raised |-> "AttributeError", self |-> self]
            ELSE [raised |-> "none", self |-> self]

None == [isNone |-> TRUE, n |-> 0]
Some(n) == [isNone |-> FALSE, n |-> n]

\* Dac2Bids(input_dir, output_dir, subject_number=..., session_number=...)
NewDac2Bids ==
    /\ dpc = "start"
    /\ \E subject_number \in {None, Some(5)}, session_number \in {None, Some(5)} :
          LET outcome == Dac2BidsInit(fs, subject_number, session_number)
          IN /\ dcall' = [subject_number |-> subject_number,
                          session_number |-> session_number]
             /\ dac' = outcome.self
             /\ draised' = outcome.raised
             /\ dpc' = IF outcome.raised = "none" THEN "built" ELSE "raised"
    /\ UNCHANGED <<pc, call, bids, raised, result, fpc, fin, fout, fs>>
    /\ UNCHANGED <<ypc, tree, skipfmap, at, outfolder, experiment, dirs, Files, yraised>>

---------------------------------------------------------------------------
(* The manifest generator of src/dac2bids.py: parse_protocols classifies   *)
(* the folders of an input tree and create_yaml turns the classification   *)
(* into the Files list of the conversion manifest.                         *)
(*                                                                         *)
(* A folder holds one series, so every file of a folder carries the same   *)
(* header and the same protocol text, and the file get_random_file picks   *)
(* does not matter; the protocol text of every file has its lRepetitions   *)
(* and lContrasts lines. Paths are sequences of components.                *)

\* '%02d' % (n,) for n >= 0.
Percent02d(n) == Zeros(2 - Len(NatToStr(n))) \o NatToStr(n)

\* part in s, for two strings.
Contains(part, s) ==
    \E i \in 1..(Len(s) - Len(part) + 1) : SubSeq(s, i, i + Len(part) - 1) = part

\* x in values, for a multi-valued header element.
InValues(x, values) == \E i \in 1..Len(values) : values[i] = x

\* The header and protocol text of the series of one folder.
Series ==
    {[ScanningSequence |-> <<"EP">>, EchoNumbers |-> 2, lContrasts |-> 2,
      SeriesDescription |-> <<"R", "e", "s", "t", "i", "n", "g", " ", "S", "t", "a", "t", "e">>, SequenceName |-> <<"e", "p", "f", "i", "d", "2", "d", "1">>],
     [ScanningSequence |-> <<"EP">>, EchoNumbers |-> 1, lContrasts |-> 1,
      SeriesDescription |-> <<"S", "t", "r", "o", "o", "p", " ", "T", "a", "s", "k">>, SequenceName |-> <<"e", "p", "f", "i", "d", "2", "d", "1">>],
     [ScanningSequence |-> <<"EP">>, EchoNumbers |-> 1, lContrasts |-> 1,
      SeriesDescription |-> <<"b", "o", "l", "d">>, SequenceName |-> <<"e", "p", "f", "i", "d", "2", "d", "1">>],
     [ScanningSequence |-> <<"GR">>, EchoNumbers |-> 2, lContrasts |-> 2,
      SeriesDescription |-> <<"f", "i", "e", "l", "d", " ", "m", "a", "p">>, SequenceName |-> <<"*", "f", "m", "2", "d", "2", "r">>],
     [ScanningSequence |-> <<"GR">>, EchoNumbers |-> 1, lContrasts |-> 1,
      SeriesDescription |-> <<"g", "r", "e">>, SequenceName |-> <<"*", "f", "l", "3", "d", "1", "1", "r">>],
     [ScanningSequence |-> <<"GR">>, EchoNumbers |-> 1, lContrasts |-> 1,
      SeriesDescription |-> <<"g", "r", "e">>, SequenceName |-> <<"*", "f", "l", "2", "d", "1">>],
     [ScanningSequence |-> <<"IR">>, EchoNumbers |-> 1, lContrasts |-> 1,
      SeriesDescription |-> <<"t", "1">>, SequenceName |-> <<"*", "t", "i", "r", "2", "d", "1">>],
     [ScanningSequence |-> <<"GR", "IR">>, EchoNumbers |-> 1, lContrasts |-> 1,
      SeriesDescription |-> <<"m", "p", "r", "a", "g", "e">>, SequenceName |-> <<"*", "t", "f", "l", "3", "d", "1">>],
     [ScanningSequence |-> <<"SE">>, EchoNumbers |-> 1, lContrasts |-> 1,
      SeriesDescription |-> <<"t", "2">>, SequenceName |-> <<"*", "t", "s", "e", "2", "d", "1">>]}

ImageTypes == {<<"ORIGINAL", "PRIMARY", "M", "ND">>,
               <<"ORIGINAL", "PRIMARY", "P", "ND">>}

\* lRepetitions of the protocol text and the number of files in the folder:
\* one repetition more than the files hold, and exactly as many.
Acquisitions == {[lRepetitions |-> 1, nfiles |-> 2],
                 [lRepetitions |-> 2, nfiles |-> 2]}

NoSeries ==
    [ScanningSequence |-> <<>>, EchoNumbers |-> 0, lContrasts |-> 1,
     SeriesDescription |-> <<>>, SequenceName |-> <<>>]

\* A folder: whether its name contains 'localizer', whether dicom.read_file
\* reads its file, whether the file has the four attributes read next to
\* ImageType, whether it has ImageType, and the values.
Folder(localizer, readable, hasAttributes, hasImageType, series, imgtype, acquisition) ==
    [localizer |-> localizer, readable |-> readable,
     hasAttributes |-> hasAttributes, hasImageType |-> hasImageType,
     ScanningSequence |-> series.ScanningSequence,
     EchoNumbers |-> series.EchoNumbers,
     SeriesDescription |-> series.SeriesDescription,
     SequenceName |-> series.SequenceName,
     lContrasts |-> series.lContrasts,
     ImageType |-> imgtype,
     lRepetitions |-> acquisition.lRepetitions,
     nfiles |-> acquisition.nfiles]

AnAcquisition == [lRepetitions |-> 1, nfiles |-> 2]
AnInversionRecovery == CHOOSE s \in Series : s.ScanningSequence = <<"IR">>

\* The folders an input tree is made of: series with a full header, files
\* with an image type and no series attributes, files with neither, files
\* that are not scan data, and a localizer.
FolderKinds ==
    {Folder(FALSE, TRUE, TRUE, TRUE, s, t, a) :
        s \in Series, t \in ImageTypes, a \in Acquisitions}
    \cup {Folder(FALSE, TRUE, FALSE, TRUE, NoSeries, <<"ORIGINAL", "PRIMARY", "OTHER">>, a) :
        a \in Acquisitions}
    \cup {Folder(FALSE, TRUE, FALSE, FALSE, NoSeries, <<>>, AnAcquisition),
          Folder(FALSE, FALSE, FALSE, FALSE, NoSeries, <<>>, AnAcquisition),
          Folder(TRUE, TRUE, TRUE, TRUE, AnInversionRecovery,
                 <<"ORIGINAL", "PRIMARY", "M", "ND">>, AnAcquisition)}

\* The subdirectories of the input folder, in the order os.listdir and the
\* dictionary built from it yield them.
Trees == UNION {[1..n -> FolderKinds] : n \in 0..MaxFolders}

\* The name of the i-th folder of a tree.
FolderName(t, i) ==
    (IF t[i].localizer THEN <<"l", "o", "c", "a", "l", "i", "z", "e", "r">> ELSE <<"s", "e", "r", "i", "e", "s">>) \o NatToStr(i)

\* The folder os.path.join(inputfolder, protocol) names.
FolderOf(t, protocol) == t[CHOOSE i \in 1..Len(t) : FolderName(t, i) = protocol]

mag_or_phase(dicomImgTypeTag) ==
    IF InValues("M", dicomImgTypeTag) THEN <<"m", "a", "g", "n", "i", "t", "u", "d", "e">>
    ELSE IF InValues("P", dicomImgTypeTag) THEN <<"p", "h", "a", "s", "e">>
    ELSE <<"u", "n", "k", "n", "o", "w", "n">>

get_number_of_repetitions_from_x_protocol(folder) == folder.lRepetitions

get_number_of_echoes_from_x_protocol(folder) == folder.lContrasts

is_incomplete_acquisition_counts_files(folder) ==
    get_number_of_repetitions_from_x_protocol(folder) > folder.nfiles

is_incomplete_acquisition(folder) ==
    get_number_of_repetitions_from_x_protocol(folder) > folder.nfiles - 1

\* A local variable of parse_protocols: unbound until first assigned.
Unbound == [bound |-> FALSE, v |-> <<>>]
Bound(v) == [bound |-> TRUE, v |-> v]

\* A value of the dictionary parse_protocols returns: None, or the entry of
\* a classified folder.
NoConfig ==
    [isNone |-> TRUE, imgtype |-> <<>>, outfolder |-> <<>>,
     experiment |-> <<>>, echo |-> 0, acq |-> <<>>]
Config(imgtype, outfolder_, experiment_, echo, acq) ==
    [isNone |-> FALSE, imgtype |-> imgtype, outfolder |-> outfolder_,
     experiment |-> experiment_, echo |-> echo, acq |-> acq]

\* What one pass of the loop of parse_protocols does.
Continue(outfolder_, experiment_) ==
    [kind |-> "continue", raised |-> "none", outfolder |-> outfolder_,
     experiment |-> experiment_, config |-> NoConfig]
Raised(e, outfolder_, experiment_) ==
    [kind |-> "raise", raised |-> e, outfolder |-> outfolder_,
     experiment |-> experiment_, config |-> NoConfig]
Entry(outfolder_, experiment_, imgtype, echo, acq) ==
    IF ~outfolder_.bound \/ ~experiment_.bound
    THEN Raised("UnboundLocalError", outfolder_, experiment_)
    ELSE [kind |-> "entry", raised |-> "none", outfolder |-> outfolder_,
          experiment |-> experiment_,
          config |-> Config(mag_or_phase(imgtype), outfolder_.v,
                            experiment_.v, echo, acq)]

\* The body of the loop of parse_protocols on one folder. outfolder_ and
\* experiment_ are the function's locals as the previous pass left them;
\* seq, echo, desc, imgtype and seqname are only read in a pass that has
\* assigned them.
parse_folder(folder, outfolder_, experiment_) ==
    IF ~folder.readable THEN Continue(outfolder_, experiment_)
    ELSE IF ~folder.hasAttributes /\ ~folder.hasImageType
    THEN Continue(outfolder_, experiment_)
    ELSE
    LET physio == ~folder.hasAttributes
        seq == IF physio THEN <<"physio">> ELSE folder.ScanningSequence
        echo == IF physio THEN 0 ELSE folder.EchoNumbers
        desc == folder.SeriesDescription
        seqname == folder.SequenceName
        imgtype == folder.ImageType
        outfolder0 == IF physio THEN Bound(<<"p", "h", "y", "s", "i", "o">>) ELSE outfolder_
        experiment0 == IF physio THEN Bound(<<"p", "h", "y", "s", "i", "o">>) ELSE experiment_
    IN  IF seq = <<"EP">>
        THEN Entry(Bound(<<"f", "u", "n", "c">>),
                   Bound(IF Contains(<<"R", "e", "s", "t", "i", "n", "g">>, desc) THEN <<"t", "a", "s", "k", "-", "r", "e", "s", "t">>
                         ELSE IF Contains(<<"T", "a", "s", "k">>, desc) THEN <<"t", "a", "s", "k", "-", "s", "t", "r", "o", "o", "p">>
                         ELSE <<"u", "n", "k", "n", "o", "w", "n">>),
                   imgtype, echo,
                   IF get_number_of_echoes_from_x_protocol(folder) > 1
                   THEN <<"a", "c", "q", "-", "m", "b", "m", "e">> ELSE <<"a", "c", "q", "-", "m", "b">>)
        ELSE IF InValues("GR", seq) /\ ~InValues("IR", seq)
        THEN IF seqname = <<"*", "f", "m", "2", "d", "2", "r">>
             THEN Entry(Bound(<<"f", "m", "a", "p">>), Bound(<<>>), imgtype, echo, <<>>)
             ELSE IF seqname = <<"*", "f", "l", "3", "d", "1", "1", "r">>
             THEN Entry(Bound(<<"a", "n", "a", "t">>), Bound(<<"T", "2", "s", "t", "a", "r", "w">>), imgtype, echo, <<>>)
             ELSE Entry(outfolder0, experiment0, imgtype, echo, <<>>)
        ELSE IF InValues("IR", seq)
        THEN Entry(Bound(<<"a", "n", "a", "t">>), Bound(<<"T", "1", "w">>), imgtype, echo, <<>>)
        ELSE IF ~outfolder0.bound
        THEN Raised("UnboundLocalError", outfolder0, experiment0)
        ELSE IF outfolder0.v \notin {<<"a", "n", "a", "t">>, <<"f", "u", "n", "c">>, <<"f", "m", "a", "p">>}
        THEN Entry(Bound(<<"u", "n", "k", "n", "o", "w", "n">>), Bound(<<"u", "n", "k", "n", "o", "w", "n">>), imgtype, echo, <<>>)
        ELSE Entry(outfolder0, experiment0, imgtype, echo, <<>>)

\* main's defaults of --sub and --ses, and the folders it is run on.
subnum == 1
sesnum == 1
inputfolder == <<"/", "d", "i", "c", "o", "m", "s">>
outputfolder == <<"/", "o", "u", "t">>

sub == <<"s", "u", "b", "-">> \o Percent02d(subnum)
ses == <<"s", "e", "s", "-">> \o Percent02d(sesnum)

\* The filename create_yaml composes for a classified folder.
filename(config, skipfmap_) ==
    LET echonum == Percent02d(config.echo)
        base == sub \o <<"_">> \o ses
    IN  IF config.outfolder = <<"f", "u", "n", "c">>
        THEN base \o <<"_">> \o config.experiment \o <<"_">> \o config.acq \o echonum
                  \o <<"_", "b", "o", "l", "d">> \o <<"_">> \o config.imgtype \o echonum
        ELSE IF config.outfolder = <<"a", "n", "a", "t">>
        THEN IF config.experiment = <<"T", "2", "s", "t", "a", "r", "w">>
             THEN base \o <<"_">> \o config.experiment \o <<"_">> \o config.imgtype \o echonum
             ELSE base \o <<"_">> \o config.experiment
        ELSE IF config.outfolder = <<"f", "m", "a", "p">>
        THEN IF skipfmap_ THEN base
             ELSE base \o <<"_">> \o config.imgtype \o echonum
        ELSE base

\* The record create_yaml appends for a folder.
FileRecord(protocol, config, skipfmap_) ==
    [in_dir |-> <<inputfolder, protocol>>,
     out_dir |-> <<outputfolder, sub, ses, config.outfolder>>,
     filename |-> filename(config, skipfmap_)]

\* The body of the loop of create_yaml on one item of inputdict: the Files
\* list after it, or the exception it raises. The comparison
\* "is not 'unknown'" is between two literals of one module, which are one
\* interned object.
manifest_folder(files, protocol, config, folder, skipfmap_) ==
    IF config.isNone THEN Raise("TypeError")
    ELSE IF is_incomplete_acquisition(folder) THEN Ok(files)
    ELSE IF config.outfolder # <<"u", "n", "k", "n", "o", "w", "n">>
    THEN Ok(Append(files, FileRecord(protocol, config, skipfmap_)))
    ELSE Ok(files)

\* Lines 116-117 of parse_protocols: the dictionary of the folders whose
\* name has no 'localizer' in it, every value None.
ListProtocols ==
    /\ ypc = "start"
    /\ ypc' = "parse"
    /\ dirs' = LET names == [i \in 1..Len(tree) |-> FolderName(tree, i)]
                   kept == SelectSeq(names, LAMBDA k : ~Contains(<<"l", "o", "c", "a", "l", "i", "z", "e", "r">>, k))
               IN [i \in 1..Len(kept) |-> [protocol |-> kept[i], config |-> NoConfig]]
    /\ at' = 1
    /\ UNCHANGED <<tree, skipfmap, outfolder, experiment, Files, yraised>>
    /\ UNCHANGED <<pc, call, bids, raised, result, fpc, fin, fout,
                   dpc, fs, dcall, dac, draised>>

\* One pass of the loop of parse_protocols.
ParseFolder ==
    /\ ypc = "parse"
    /\ at <= Len(dirs)
    /\ LET pass == parse_folder(FolderOf(tree, dirs[at].protocol), outfolder, experiment)
       IN /\ outfolder' = pass.outfolder
          /\ experiment' = pass.experiment
          /\ IF pass.kind = "raise"
             THEN /\ ypc' = "raised"
                  /\ yraised' = pass.raised
                  /\ UNCHANGED <<dirs, at>>
             ELSE /\ dirs' = [dirs EXCEPT ![at].config = pass.config]
                  /\ at' = at + 1
                  /\ UNCHANGED <<ypc, yraised>>
    /\ UNCHANGED <<tree, skipfmap, Files>>
    /\ UNCHANGED <<pc, call, bids, raised, result, fpc, fin, fout,
                   dpc, fs, dcall, dac, draised>>

\* parse_protocols returns dirs and create_yaml starts on its items.
ReturnDirs ==
    /\ ypc = "parse"
    /\ at > Len(dirs)
    /\ ypc' = "manifest"
    /\ at' = 1
    /\ Files' = <<>>
    /\ UNCHANGED <<tree, skipfmap, outfolder, experiment, dirs, yraised>>
    /\ UNCHANGED <<pc, call, bids, raised, result, fpc, fin, fout,
                   dpc, fs, dcall, dac, draised>>

\* One pass of the loop of create_yaml.
ManifestFolder ==
    /\ ypc = "manifest"
    /\ at <= Len(dirs)
    /\ LET pass == manifest_folder(Files, dirs[at].protocol, dirs[at].config,
                                   FolderOf(tree, dirs[at].protocol), skipfmap)
       IN IF pass.raised # "none"
          THEN /\ ypc' = "raised"
               /\ yraised' = pass.raised
               /\ UNCHANGED <<Files, at>>
          ELSE /\ Files' = pass.value
               /\ at' = at + 1
               /\ UNCHANGED <<ypc, yraised>>
    /\ UNCHANGED <<tree, skipfmap, outfolder, experiment, dirs>>
    /\ UNCHANGED <<pc, call, bids, raised, result, fpc, fin, fout,
                   dpc, fs, dcall, dac, draised>>

\* create_yaml returns the dumped manifest and main writes it.
WriteManifest ==
    /\ ypc = "manifest"
    /\ at > Len(dirs)
    /\ ypc' = "done"
    /\ UNCHANGED <<tree, skipfmap, at, outfolder, experiment, dirs, Files, yraised>>
    /\ UNCHANGED <<pc, call, bids, raised, result, fpc, fin, fout,
                   dpc, fs, dcall, dac, draised>>

---------------------------------------------------------------------------
(* Specifications. *)

BidifyerIdle ==
    /\ call = [cls |-> "none", args |-> <<>>, kwargs |-> Kwargs(NoArg, NoArg)]
    /\ bids = NoObject
    /\ raised = "none"
    /\ result = NoResult

FormatterIdle ==
    /\ fin = [precision |-> 2, x |-> IntVal(0)]
    /\ fout = Ok(<<>>)

Dac2BidsIdle ==
    /\ fs = [rootKind |-> "missing", root |-> <<>>, cwdIsInput |-> FALSE,
             cwd |-> <<>>]
    /\ dcall = [subject_number |-> None, session_number |-> None]
    /\ dac = NoDac
    /\ draised = "none"

YamlIdle ==
    /\ tree = <<>>
    /\ skipfmap = FALSE
    /\ at = 0
    /\ outfolder = Unbound
    /\ experiment = Unbound
    /\ dirs = <<>>
    /\ Files = <<>>
    /\ yraised = "none"

\* The composer: one constructor call, then reads of its properties.
Init ==
    /\ pc = "start"
    /\ BidifyerIdle
    /\ fpc = "idle"
    /\ FormatterIdle
    /\ dpc = "idle"
    /\ Dac2BidsIdle
    /\ ypc = "idle"
    /\ YamlIdle

Next ==
    \/ NewBidifyer
    \/ NewFunctionalBidifyer
    \/ NewOtherBidifyer
    \/ ReadSubjectTag
    \/ ReadSessionTag
    \/ ReadTaskTag
    \/ ReadAcquisitionTag
    \/ ReadPeDirectionTag
    \/ ReadRunTag
    \/ ReadTag

Spec == Init /\ [][Next]_vars

\* The formatter applied to each input of a bounded set.
InitFormatter ==
    /\ pc = "idle"
    /\ BidifyerIdle
    /\ fpc = "input"
    /\ fin \in [precision : 1..MaxPrecision, x : FormatterInputs]
    /\ fout = Ok(<<>>)
    /\ dpc = "idle"
    /\ Dac2BidsIdle
    /\ ypc = "idle"
    /\ YamlIdle

NextFormatter == ApplyFormatter

SpecFormatter == InitFormatter /\ [][NextFormatter]_vars

\* The orchestrator's constructor on each file system of a bounded set.
InitDac2Bids ==
    /\ pc = "idle"
    /\ BidifyerIdle
    /\ fpc = "idle"
    /\ FormatterIdle
    /\ dpc = "start"
    /\ fs \in FileSystems
    /\ dcall = [subject_number |-> None, session_number |-> None]
    /\ dac = NoDac
    /\ draised = "none"
    /\ ypc = "idle"
    /\ YamlIdle

NextDac2Bids == NewDac2Bids

SpecDac2Bids == InitDac2Bids /\ [][NextDac2Bids]_vars

\* One run of main on each input tree of a bounded set, with and without
\* --skipfmap.
InitYaml ==
    /\ pc = "idle"
    /\ BidifyerIdle
    /\ fpc = "idle"
    /\ FormatterIdle
    /\ dpc = "idle"
    /\ Dac2BidsIdle
    /\ ypc = "start"
    /\ tree \in Trees
    /\ skipfmap \in BOOLEAN
    /\ at = 0
    /\ outfolder = Unbound
    /\ experiment = Unbound
    /\ dirs = <<>>
    /\ Files = <<>>
    /\ yraised = "none"

NextYaml ==
    \/ ListProtocols
    \/ ParseFolder
    \/ ReturnDirs
    \/ ManifestFolder
    \/ WriteManifest

SpecYaml == InitYaml /\ [][NextYaml]_vars

---------------------------------------------------------------------------
(* What the properties below are stated with: the dictionary the caller    *)
(* passed, the fields' keys, and reference definitions of joining and of   *)
(* zero padding that do not use the composer's own operators.              *)

Fields == <<"subject", "session", "task", "acquisition", "pe_direction", "run">>
OptionalFields == {"session", "task", "acquisition", "pe_direction", "run"}

AccessorName ==
    [subject |-> "subject_tag", session |-> "session_tag", task |-> "task_tag",
     acquisition |-> "acquisition_tag", pe_direction |-> "pe_direction_tag",
     run |-> "run_tag"]
LabelKey ==
    [subject |-> "subject_label", session |-> "session_label",
     task |-> "task_label", acquisition |-> "acquisition_label",
     pe_direction |-> "pe_direction_label", run |-> "no_label"]
NumberKey ==
    [subject |-> "subject_number", session |-> "session_number",
     task |-> "no_number", acquisition |-> "acquisition_number",
     pe_direction |-> "no_number", run |-> "run_index"]
IndexKey ==
    [subject |-> "subject_index", session |-> "session_index",
     acquisition |-> "acquisition_index"]

\* The bids_config dictionary of the call ({} when none was passed).
PassedConfig ==
    IF "bids_config" \in DOMAIN call.kwargs /\ call.kwargs["bids_config"].type = "dict"
    THEN call.kwargs["bids_config"].items
    ELSE IF Len(call.args) >= 1 /\ call.args[1].type = "dict"
    THEN call.args[1].items
    ELSE [k \in {} |-> EMPTY]

Configured(key) == Get(PassedConfig, key, EMPTY)

\* The values of the six properties of the constructed object, in order.
AccessorValues ==
    <<subject_tag(bids).value, session_tag(bids).value, task_tag(bids).value,
      acquisition_tag(bids).value, pe_direction_tag(bids).value,
      run_tag(bids).value>>

RECURSIVE JoinWith(_, _)
\* The strings of a sequence with sep between neighbours.
JoinWith(strings, sep) ==
    IF Len(strings) = 0 THEN <<>>
    ELSE IF Len(strings) = 1 THEN strings[1]
    ELSE strings[1] \o sep \o JoinWith(Tail(strings), sep)

NonEmpty(t) == t # <<>>

HasDoubleSeparator(t) ==
    \E i \in 1..(Len(t) - 1) : t[i] = "_" /\ t[i + 1] = "_"

RECURSIVE NumDigits(_)
NumDigits(n) == IF n < 10 THEN 1 ELSE 1 + NumDigits(n \div 10)

DigitValue(c) == CHOOSE d \in 0..9 : DigitChars[d + 1] = c

RECURSIVE DecimalValue(_)
\* The number a string of digits denotes.
DecimalValue(t) ==
    IF Len(t) = 0 THEN 0
    ELSE 10 * DecimalValue(SubSeq(t, 1, Len(t) - 1)) + DigitValue(t[Len(t)])

\* t is n >= 0 in base 10, left-padded with zeros to width (longer when n
\* has more digits).
IsPadded(t, n, width) ==
    /\ \A i \in 1..Len(t) : t[i] \in DigitSet
    /\ Len(t) = (IF NumDigits(n) > width THEN NumDigits(n) ELSE width)
    /\ DecimalValue(t) = n

\* The width a field's index is padded to: format_precision for subject
\* and session, 2 for acquisition and run.
FieldWidth(f) ==
    IF f \in {"subject", "session"} THEN bids.format_precision ELSE 2

\* t is abbreviation, "-", label and then the index n padded to width.
IsFieldTag(t, f, label, n, width) ==
    LET head == bids_abbreviations[f] \o <<"-">> \o label
    IN /\ Len(t) > Len(head)
       /\ SubSeq(t, 1, Len(head)) = head
       /\ IsPadded(SubSeq(t, Len(head) + 1, Len(t)), n, width)

Built == pc = "built" /\ call.cls = "Bidifyer"

---------------------------------------------------------------------------
\* C1: on every composer that was constructed, tag is the non-empty values
\* of subject_tag, session_tag, task_tag, acquisition_tag, pe_direction_tag
\* and run_tag, in that order, joined by one "_"; it neither starts nor ends
\* with "_" and holds no "__".
C1_TagJoinsNonEmptyTags ==
    (Built /\ result.accessor = "tag") =>
        /\ result.value = JoinWith(SelectSeq(AccessorValues, NonEmpty), <<"_">>)
        /\ Len(result.value) > 0
        /\ result.value[1] # "_"
        /\ result.value[Len(result.value)] # "_"
        /\ ~HasDoubleSeparator(result.value)

\* tag read from a composer built with a task label, a run index and no
\* session ("sub-01_task-ab_run-03"), the empty fields leaving no segment.
C1_Witness ==
    /\ Built
    /\ result.accessor = "tag"
    /\ session_tag(bids).value = <<>>
    /\ Configured("task_label") = StrVal(<<"a", "b">>)
    /\ Configured("run_index") = IntVal(3)
    /\ result.value = <<"s", "u", "b", "-", "0", "1", "_", "t", "a", "s", "k",
                        "-", "a", "b", "_", "r", "u", "n", "-", "0", "3">>

\* The tag of the full configuration at format_precision 3:
\* "sub-sublabel001_ses-seslabel003_task-tasklabel_
\*  acq-acqlabel05_dir-dirlabel_run-08".
FullTag ==
    <<"s", "u", "b", "-", "s", "u", "b", "l", "a", "b", "e", "l", "0", "0",
      "1", "_", "s", "e", "s", "-", "s", "e", "s", "l", "a", "b", "e", "l",
      "0", "0", "3", "_", "t", "a", "s", "k", "-", "t", "a", "s", "k", "l",
      "a", "b", "e", "l", "_", "a", "c", "q", "-", "a", "c", "q", "l", "a",
      "b", "e", "l", "0", "5", "_", "d", "i", "r", "-", "d", "i", "r", "l",
      "a", "b", "e", "l", "_", "r", "u", "n", "-", "0", "8">>

\* A state in which that tag was read from the composer built from the full
\* configuration at format_precision 3.
FullTagRead ==
    /\ Built
    /\ result.accessor = "tag"
    /\ PassedConfig = full_configuration
    /\ bids.format_precision = 3
    /\ result.value = FullTag

\* C2: a composer built from a bids_config that gives subject_index,
\* session_index or acquisition_index (N) with that field's label L has the
\* sub-tag "<abbr>-" L N-zero-padded.
C2_IndexKeyGivesPaddedIndex ==
    Built =>
        \A f \in {"subject", "session", "acquisition"} :
            (/\ IndexKey[f] \in DOMAIN PassedConfig
             /\ LabelKey[f] \in DOMAIN PassedConfig
             /\ PassedConfig[LabelKey[f]] # EMPTY
             /\ result.accessor = AccessorName[f])
            => IsFieldTag(result.value, f, Str(PassedConfig[LabelKey[f]]),
                          PassedConfig[IndexKey[f]].n, FieldWidth(f))

\* What C3 says of field f: label and index both empty give "", the label
\* alone gives "<abbr>-<label>", the index alone "<abbr>-<padded index>".
FieldOmittedOrPartial(f) ==
    LET label == Configured(LabelKey[f])
        index == Configured(NumberKey[f])
    IN result.accessor = AccessorName[f] =>
        /\ (label = EMPTY /\ index = EMPTY) => result.value = <<>>
        /\ (label # EMPTY /\ index = EMPTY)
              => result.value = bids_abbreviations[f] \o <<"-">> \o Str(label)
        /\ (label = EMPTY /\ index # EMPTY)
              => IsFieldTag(result.value, f, <<>>, index.n, FieldWidth(f))

C4_PaddingWidths ==
    Built =>
        \A i \in 1..Len(Fields) :
            LET f == Fields[i]
                index == bids.config[NumberKey[f]]
            IN (/\ f \in {"subject", "session", "acquisition", "run"}
                /\ result.accessor = AccessorName[f]
                /\ index # EMPTY)
               => IsFieldTag(result.value, f,
                             IF f = "run" THEN <<>> ELSE Str(bids.config[LabelKey[f]]),
                             index.n,
                             IF f \in {"subject", "session"}
                             THEN Get(call.kwargs, "format_precision", ArgInt(2)).n
                             ELSE 2)

\* run_tag read from a composer built with format_precision 5 and run
\* index 3: "run-03".
C4_Witness ==
    /\ Built
    /\ bids.format_precision = 5
    /\ result.accessor = "run_tag"
    /\ Configured("run_index") = IntVal(3)
    /\ result.value = <<"r", "u", "n", "-", "0", "3">>

\* Some configured label is non-empty and not purely alphanumeric.
SomeIllegalLabel ==
    \E k \in LabelKeys :
        Configured(k) # EMPTY /\ ~IsAlnum(Str(Configured(k)))

\* C5: constructing a Bidifyer raises BidsMalformedLabelError exactly when
\* some non-empty configured label holds a non-alphanumeric character, and
\* then no object is built.
C5_MalformedLabelRaised ==
    (pc \in {"built", "raised"} /\ call.cls = "Bidifyer") =>
        /\ SomeIllegalLabel <=> raised = "BidsMalformedLabelError"
        /\ SomeIllegalLabel => ~bids.exists

\* C6: constructing a FunctionalBidifyer raises BidsInconsistentNamingError
\* when the task label is empty, and never when it is non-empty and
\* alphanumeric.
C6_FunctionalNeedsTask ==
    (pc \in {"built", "raised"} /\ call.cls = "FunctionalBidifyer") =>
        /\ Configured("task_label") = EMPTY
              => raised = "BidsInconsistentNamingError"
        /\ IsAlnum(Str(Configured("task_label")))
              => raised # "BidsInconsistentNamingError"

\* C7: formatter(P)(N) is N in base 10 left-padded with zeros to a length
\* of at least P, and formatter(P)("") is "".
C7_FormatterPadsOrKeepsEmpty ==
    fpc = "done" =>
        IF fin.x.isInt
        THEN LET t == fout.value
                 digits == IF fin.x.n < 0 THEN Tail(t) ELSE t
             IN /\ fout.raised = "none"
                /\ Len(t) >= fin.precision
                /\ fin.x.n < 0 => t[1] = "-"
                /\ \A i \in 1..Len(digits) : digits[i] \in DigitSet
                /\ DecimalValue(digits) = (IF fin.x.n < 0 THEN -fin.x.n ELSE fin.x.n)
        ELSE fout = Ok(<<>>)

\* Some immediate subdirectory of the input root holds a non-hidden
\* subdirectory.
RootHasNestedDirectory ==
    \E x \in DOMAIN fs.root :
        fs.root[x].isdir /\ \E d \in fs.root[x].subdirs : d[1] # "."

\* C8: Dac2Bids(input_dir, output_dir) raises NotADirectoryError exactly
\* when input_dir is missing or not a directory, and then before the
\* subdirectories were listed.
C8_NotADirectory ==
    dpc \in {"built", "raised"} =>
        /\ draised = "NotADirectoryError" <=> fs.rootKind # "dir"
        /\ draised = "NotADirectoryError" => ~dac.listed

\* The constructor called on a path that is a file.
C8_Witness ==
    /\ dpc = "raised"
    /\ fs.rootKind = "file"
    /\ draised = "NotADirectoryError"
    /\ ~dac.listed

\* C9: on an existing input root the constructor raises
\* UnproperDicomSortingError exactly when an immediate subdirectory of the
\* root holds a non-hidden subdirectory, whatever the working directory.
C9_NestedDirectoryRaises ==
    (dpc \in {"built", "raised"} /\ fs.rootKind = "dir") =>
        (draised = "UnproperDicomSortingError" <=> RootHasNestedDirectory)

\* C10: on an existing, well-formed input directory, with no subject or
\* session number supplied, the constructor completes.
C10_ConstructionCompletes ==
    (/\ dpc \in {"built", "raised"}
     /\ fs.rootKind = "dir"
     /\ ~RootHasNestedDirectory
     /\ dcall.subject_number = None
     /\ dcall.session_number = None)
    => (dpc = "built" /\ draised = "none")

---------------------------------------------------------------------------
(* What the manifest properties are stated with. *)

\* The items of dirs parse_protocols has passed, and their folders.
Item(j) == dirs[j]
ItemFolder(j) == FolderOf(tree, dirs[j].protocol)

\* The Files list has a record read from the folder of item j.
HasRecord(j) ==
    \E k \in 1..Len(Files) : Files[k].in_dir = <<inputfolder, dirs[j].protocol>>

IsFieldMapRecord(r) == r.out_dir[Len(r.out_dir)] = <<"f", "m", "a", "p">>

RECURSIVE FilesOf(_, _, _)
\* The Files list create_yaml builds from the first n items of dirs under a
\* value of the flag (none when a pass raises).
FilesOf(n, skipfmap_, files) ==
    IF n = 0 THEN Ok(files)
    ELSE LET before == FilesOf(n - 1, skipfmap_, files)
         IN IF before.raised # "none" THEN before
            ELSE manifest_folder(before.value, dirs[n].protocol, dirs[n].config,
                                 ItemFolder(n), skipfmap_)

\* C11: when --skipfmap is set, no folder classified as field map has a
\* record in the Files list of the written manifest, and the records of the
\* other folders are those the same run without the flag writes.
C11_SkipFmapOmitsFieldMaps ==
    (ypc = "done" /\ skipfmap) =>
        /\ \A j \in 1..Len(dirs) :
              dirs[j].config.outfolder = <<"f", "m", "a", "p">> => ~HasRecord(j)
        /\ SelectSeq(Files, LAMBDA r : ~IsFieldMapRecord(r))
             = SelectSeq(FilesOf(Len(dirs), FALSE, <<>>).value,
                         LAMBDA r : ~IsFieldMapRecord(r))

\* The protocol's repetition count exceeds the folder's file count minus one.
RepetitionsExceedFiles(folder) == folder.lRepetitions > folder.nfiles - 1

\* The loop of create_yaml has passed item j.
PassedByCreateYaml(j) ==
    /\ j \in 1..Len(dirs)
    /\ j < at
    /\ (ypc \in {"manifest", "done"} \/ yraised = "TypeError")

\* C12: a folder whose repetition count exceeds its file count minus one
\* never has a record in Files; a folder whose count is at most that, once
\* the loop of create_yaml has passed it, has its record unless its category
\* is unknown, whatever was excluded before it; and a manifest is written
\* only after every item was passed.
C12_IncompleteFoldersExcluded ==
    /\ \A j \in 1..Len(dirs) :
          RepetitionsExceedFiles(ItemFolder(j)) => ~HasRecord(j)
    /\ \A j \in 1..Len(dirs) :
          (/\ PassedByCreateYaml(j)
           /\ ~RepetitionsExceedFiles(ItemFolder(j))
           /\ dirs[j].config.outfolder # <<"u", "n", "k", "n", "o", "w", "n">>) => HasRecord(j)
    /\ ypc = "done" => at = Len(dirs) + 1

\* A written manifest that lacks the record of an incomplete folder and has
\* the record of a complete folder processed after it.
C12_Witness ==
    /\ ypc = "done"
    /\ \E j1, j2 \in 1..Len(dirs) :
          /\ j1 < j2
          /\ RepetitionsExceedFiles(ItemFolder(j1))
          /\ dirs[j1].config.outfolder # <<"u", "n", "k", "n", "o", "w", "n">>
          /\ ~HasRecord(j1)
          /\ ~RepetitionsExceedFiles(ItemFolder(j2))
          /\ HasRecord(j2)

\* The category the ordered rules give a folder from its own header.
RuleCategory(folder) ==
    LET seq == folder.ScanningSequence
    IN  IF seq = <<"EP">> THEN <<"f", "u", "n", "c">>
        ELSE IF InValues("GR", seq) /\ ~InValues("IR", seq)
        THEN IF folder.SequenceName = <<"*", "f", "m", "2", "d", "2", "r">> THEN <<"f", "m", "a", "p">>
             ELSE IF folder.SequenceName = <<"*", "f", "l", "3", "d", "1", "1", "r">> THEN <<"a", "n", "a", "t">>
             ELSE <<"u", "n", "k", "n", "o", "w", "n">>
        ELSE IF InValues("IR", seq) THEN <<"a", "n", "a", "t">>
        ELSE <<"u", "n", "k", "n", "o", "w", "n">>

\* C13: classification never raises on a folder, and the category in the
\* entry of every folder with a full header is the one the ordered rules
\* give from that folder's own header, whatever was processed before it.
C13_CategoryFromOwnMetadata ==
    /\ yraised # "UnboundLocalError"
    /\ \A j \in 1..Len(dirs) :
          (~dirs[j].config.isNone /\ ItemFolder(j).hasAttributes) =>
              dirs[j].config.outfolder = RuleCategory(ItemFolder(j))

\* The file of the folder lacks series attributes and has an image type.
LacksAttributesHasImageType(folder) ==
    folder.readable /\ ~folder.hasAttributes /\ folder.hasImageType

\* C14: when parse_protocols has returned, the entry of every folder whose
\* file lacks the series attributes and has an image type carries the
\* category 'physio'.
C14_PhysioCategoryCarried ==
    ypc \in {"manifest", "done"} =>
        \A j \in 1..Len(dirs) :
            LacksAttributesHasImageType(ItemFolder(j)) =>
                /\ ~dirs[j].config.isNone
                /\ dirs[j].config.outfolder = <<"p", "h", "y", "s", "i", "o">>

\* The classifier skips the folder: its file is not readable as scan data,
\* or has neither the series attributes nor an image type.
SkippedByClassifier(folder) ==
    ~folder.readable \/ (~folder.hasAttributes /\ ~folder.hasImageType)

\* C15: the run never raises at a folder the classifier skipped, and a
\* written manifest has no record of a skipped folder and has the record of
\* every other folder that is complete and of a known category.
C15_SkippedFolderNeverRaises ==
    /\ ypc = "raised" => ~SkippedByClassifier(ItemFolder(at))
    /\ ypc = "done" =>
          \A j \in 1..Len(dirs) :
             IF SkippedByClassifier(ItemFolder(j)) THEN ~HasRecord(j)
             ELSE (/\ ~RepetitionsExceedFiles(ItemFolder(j))
                   /\ dirs[j].config.outfolder # <<"u", "n", "k", "n", "o", "w", "n">>) => HasRecord(j)

===========================================================================
